---- MODULE Spec2Model ----
(***************************************************************************)
(* go-kubernetes: the Gin API process (api/main.go and the IP-reporting   *)
(* revision), the nginx Ingress rules and the frontend script, as state   *)
(* machines.  Strings are sequences of one-character strings so that      *)
(* formatting, prefix matching and rewriting are computed, not assumed.   *)
(***************************************************************************)
EXTENDS Naturals, Sequences, FiniteSets

VARIABLES
    rev,        \* which API binary runs: "static" (api/main.go) or "ip"
    proc,       \* the API process: "starting", "serving", "exited"
    bound,      \* TRUE once router.Run has bound the port
    exitCode,   \* the exit status once proc = "exited"
    req,        \* req[r]: method and path of request r
    pc,         \* pc[r]: where the goroutine serving r stands
    err,        \* err[r]: the err local of getIpAddress
    dials,      \* dials[r]: net.Dial calls made for r
    sock,       \* sock[r]: the UDP socket conn of getIpAddress
    ipAddress,  \* ipAddress[r]: the string getIpAddress returned
    reached,    \* reached[r]: getMessage was entered for r
    resp,       \* resp[r]: the HTTP response written for r
    irev,       \* which Ingress manifest is applied: "repo" or "readme"
    fwd,        \* what the Ingress controller forwarded, in order
    gw,         \* gw[i]: the upstream connection and the answer of fwd[i]
    loads,      \* times the browser has loaded the page
    fePc,       \* the frontend script's position
    fetchCount, \* fetch() calls made by the script
    feResp,     \* the response fetch() resolved with
    feData,     \* what response.json() resolved with
    feErr,      \* the reason the promise chain was rejected with
    dom,        \* innerHTML of #title and #body
    console     \* lines written by console.log

apiVars == <<rev, proc, bound, exitCode, req, pc, err, dials, sock, ipAddress, reached, resp>>
ingressVars == <<irev, fwd, gw>>
feVars == <<loads, fePc, fetchCount, feResp, feData, feErr, dom, console>>
vars == <<apiVars, ingressVars, feVars>>

----------------------------------------------------------------------------
(* Bounds *)

MaxRequests == 2

MaxLoads == 3

Requests == 1..MaxRequests

----------------------------------------------------------------------------
(* String literals of the sources *)

TitleText ==
    <<"H","e","l","l","o"," ","f","r","o","m"," ","G","o","!">>
StaticBody ==
    <<"W","e","l","c","o","m","e"," ","t","o"," ","K","u","b","e","r","n","e","t","e","s",".">>
BodyPrefix ==
    <<"W","e","l","c","o","m","e"," ","t","o"," ","K","u","b","e","r","n","e","t","e","s"," ","p","o","d","@","'">>
BodySuffix ==
    <<"'",".">>
MessagePath ==
    <<"/","m","e","s","s","a","g","e">>
PathRoot ==
    <<"/">>
PathMessageSlash ==
    <<"/","m","e","s","s","a","g","e","/">>
PathApiMessage ==
    <<"/","a","p","i","/","m","e","s","s","a","g","e">>
PathPing ==
    <<"/","p","i","n","g">>
NotFoundText ==
    <<"4","0","4"," ","p","a","g","e"," ","n","o","t"," ","f","o","u","n","d">>

\* http.StatusOK of the handlers; the status of a router without a match
StatusOK == 200
StatusNotFound == 404

----------------------------------------------------------------------------
(* net.IP.String() of a 4-byte address *)

DigitChars == <<"0","1","2","3","4","5","6","7","8","9">>

Digit(d) == DigitChars[d + 1]

Ubtoa(v) ==
    IF v < 10 THEN <<Digit(v)>>
    ELSE IF v < 100 THEN <<Digit(v \div 10), Digit(v % 10)>>
    ELSE <<Digit(v \div 100), Digit((v \div 10) % 10), Digit(v % 10)>>

\* A formatter that joins the octets without the dots.
IPStringNoDots(ip) ==
    Ubtoa(ip[1]) \o Ubtoa(ip[2]) \o Ubtoa(ip[3]) \o Ubtoa(ip[4])

IPString(ip) ==
    Ubtoa(ip[1]) \o <<".">> \o Ubtoa(ip[2]) \o <<".">> \o Ubtoa(ip[3]) \o <<".">> \o Ubtoa(ip[4])

\* The local addresses the kernel may assign to the connected UDP socket.
LocalAddrs == {<<10,1,0,58>>, <<192,168,255,7>>}

NoAddr == <<0,0,0,0>>

----------------------------------------------------------------------------
(* Reading a dotted quad back out of a string *)

IsDigit(c) == \E d \in 0..9 : c = Digit(d)

DigitValue(c) == CHOOSE d \in 0..9 : c = Digit(d)

\* s[i..i+l-1] is a decimal octet 0..255 without a leading zero
OctetAt(s, i, l) ==
    /\ i >= 1
    /\ i + l - 1 <= Len(s)
    /\ \A k \in i..(i + l - 1) : IsDigit(s[k])
    /\ (l > 1 => s[i] # "0")
    /\ (l = 3 => DigitValue(s[i]) * 100 + DigitValue(s[i+1]) * 10 + DigitValue(s[i+2]) <= 255)

DotAt(s, i) == i >= 1 /\ i <= Len(s) /\ s[i] = "."

HasIPv4(s) ==
    \E i \in 1..Len(s) : \E l1 \in 1..3 : \E l2 \in 1..3 : \E l3 \in 1..3 : \E l4 \in 1..3 :
        /\ OctetAt(s, i, l1)
        /\ DotAt(s, i + l1)
        /\ OctetAt(s, i + l1 + 1, l2)
        /\ DotAt(s, i + l1 + 1 + l2)
        /\ OctetAt(s, i + l1 + l2 + 2, l3)
        /\ DotAt(s, i + l1 + l2 + 2 + l3)
        /\ OctetAt(s, i + l1 + l2 + l3 + 3, l4)

----------------------------------------------------------------------------
(* HTTP requests and responses *)

Methods == {"GET", "POST"}

ApiPaths == {MessagePath, PathRoot, PathMessageSlash, PathApiMessage, PathPing}

NoReq == [method |-> "", path |-> <<>>]

\* json is the set of <<key, value>> members of the JSON object written
NoResp == [status |-> 0, json |-> {}, text |-> <<>>, location |-> <<>>]

NoSock == [state |-> "none", laddr |-> NoAddr, sent |-> 0]

JsonHas(j, k) == \E kv \in j : kv[1] = k

JsonGet(j, k) == (CHOOSE kv \in j : kv[1] = k)[2]

\* context.JSON(code, gin.H{...})
JSONResponse(code, obj) == [status |-> code, json |-> obj, text |-> <<>>, location |-> <<>>]

\* gin.H of api/main.go
MessageStatic == {<<"title", TitleText>>, <<"body", StaticBody>>}

\* A handler that leaves the body empty.
MessageWithIPEmptyBody(ip) == {<<"title", TitleText>>, <<"body", <<>> >>}

\* gin.H of the IP-reporting revision, given getIpAddress()'s result
MessageWithIP(ip) == {<<"title", TitleText>>, <<"body", BodyPrefix \o ip \o BodySuffix>>}

----------------------------------------------------------------------------
(* The Gin router: gin.Default() with the one route of main() *)

Routes == {[method |-> "GET", path |-> MessagePath]}

\* gin.Default() is gin.New() plus Logger and Recovery; New() sets
\* RedirectTrailingSlash true, RedirectFixedPath and HandleMethodNotAllowed false.
RedirectTrailingSlash == TRUE

\* the route differs from the path by exactly one trailing slash
TrailingSlashOf(routePath, path) ==
    \/ path = routePath \o <<"/">>
    \/ routePath = path \o <<"/">>

\* A router that registers the handler as a prefix of the path.
RoutePrefix(method, path) ==
    IF \E rt \in Routes : rt.method = method /\ Len(path) >= Len(rt.path)
                          /\ SubSeq(path, 1, Len(rt.path)) = rt.path
    THEN "handler" ELSE "notfound"

\* Engine.handleHTTPRequest: the method's tree, then the trailing-slash
\* redirect, then 404
Route(method, path) ==
    LET tree == {rt \in Routes : rt.method = method}
    IN  IF \E rt \in tree : rt.path = path THEN "handler"
        ELSE IF /\ RedirectTrailingSlash
                /\ method # "CONNECT"
                /\ path # PathRoot
                /\ \E rt \in tree : TrailingSlashOf(rt.path, path)
        THEN "redirect"
        ELSE "notfound"

RedirectResponse(method, path) ==
    [status |-> IF method = "GET" THEN 301 ELSE 307,
     json |-> {}, text |-> <<>>,
     location |-> IF path[Len(path)] = "/" THEN SubSeq(path, 1, Len(path) - 1)
                  ELSE path \o <<"/">>]

NotFoundResponse == [status |-> StatusNotFound, json |-> {}, text |-> NotFoundText, location |-> <<>>]

----------------------------------------------------------------------------
(* The API process *)

\* router.Run(addr) binds and serves
ListenAndServe ==
    /\ proc = "starting"
    /\ proc' = "serving"
    /\ bound' = TRUE
    /\ UNCHANGED <<rev, exitCode, req, pc, err, dials, sock, ipAddress, reached, resp>>
    /\ UNCHANGED <<ingressVars, feVars>>

\* A main that treats the listen error as fatal.
RunFailsFatal ==
    /\ proc = "starting"
    /\ proc' = "exited"
    /\ exitCode' = 1
    /\ UNCHANGED <<rev, bound, req, pc, err, dials, sock, ipAddress, reached, resp>>
    /\ UNCHANGED <<ingressVars, feVars>>

\* router.Run(addr) cannot bind: it returns the error, main drops it and
\* returns, so the process ends with status 0
RunFails ==
    /\ proc = "starting"
    /\ proc' = "exited"
    /\ exitCode' = 0
    /\ UNCHANGED <<rev, bound, req, pc, err, dials, sock, ipAddress, reached, resp>>
    /\ UNCHANGED <<ingressVars, feVars>>

\* a request reaches the listening process; ids are handed out in order
Arrive(r, m, p) ==
    /\ proc = "serving"
    /\ pc[r] = "none"
    /\ \A q \in Requests : q < r => pc[q] # "none"
    /\ req' = [req EXCEPT ![r] = [method |-> m, path |-> p]]
    /\ pc' = [pc EXCEPT ![r] = "recv"]
    /\ UNCHANGED <<rev, proc, bound, exitCode, err, dials, sock, ipAddress, reached, resp>>
    /\ UNCHANGED <<ingressVars, feVars>>

\* the router dispatches the request
ServeHTTP(r) ==
    /\ proc = "serving"
    /\ pc[r] = "recv"
    /\ LET how == Route(req[r].method, req[r].path)
       IN  /\ pc' = [pc EXCEPT ![r] = IF how = "handler" THEN "getMessage" ELSE "done"]
           /\ reached' = [reached EXCEPT ![r] = (how = "handler")]
           /\ resp' = [resp EXCEPT ![r] =
                         IF how = "handler" THEN NoResp
                         ELSE IF how = "redirect" THEN RedirectResponse(req[r].method, req[r].path)
                         ELSE NotFoundResponse]
    /\ UNCHANGED <<rev, proc, bound, exitCode, req, err, dials, sock, ipAddress>>
    /\ UNCHANGED <<ingressVars, feVars>>

\* getMessage of api/main.go
GetMessageStatic(r) ==
    /\ proc = "serving"
    /\ rev = "static"
    /\ pc[r] = "getMessage"
    /\ resp' = [resp EXCEPT ![r] = JSONResponse(StatusOK, MessageStatic)]
    /\ pc' = [pc EXCEPT ![r] = "done"]
    /\ UNCHANGED <<rev, proc, bound, exitCode, req, err, dials, sock, ipAddress, reached>>
    /\ UNCHANGED <<ingressVars, feVars>>

\* getIpAddress: net.Dial("udp", "8.8.8.8:80") succeeds; connecting a UDP
\* socket sends nothing
DialOk(r, ip) ==
    /\ proc = "serving"
    /\ rev = "ip"
    /\ pc[r] = "getMessage"
    /\ sock' = [sock EXCEPT ![r] = [state |-> "open", laddr |-> ip, sent |-> 0]]
    /\ err' = [err EXCEPT ![r] = "nil"]
    /\ dials' = [dials EXCEPT ![r] = @ + 1]
    /\ pc' = [pc EXCEPT ![r] = "dialed"]
    /\ UNCHANGED <<rev, proc, bound, exitCode, req, ipAddress, reached, resp>>
    /\ UNCHANGED <<ingressVars, feVars>>

\* A getIpAddress that logs the error and answers with an empty address.
DialFailsFallback(r) ==
    /\ proc = "serving"
    /\ rev = "ip"
    /\ pc[r] = "getMessage"
    /\ err' = [err EXCEPT ![r] = "err"]
    /\ dials' = [dials EXCEPT ![r] = @ + 1]
    /\ resp' = [resp EXCEPT ![r] = JSONResponse(StatusOK, MessageWithIP(<<>>))]
    /\ pc' = [pc EXCEPT ![r] = "done"]
    /\ UNCHANGED <<rev, proc, bound, exitCode, req, sock, ipAddress, reached>>
    /\ UNCHANGED <<ingressVars, feVars>>

\* getIpAddress: net.Dial fails, log.Fatal(err) exits the process with
\* status 1; the kernel closes whatever sockets other goroutines hold
DialFails(r) ==
    /\ proc = "serving"
    /\ rev = "ip"
    /\ pc[r] = "getMessage"
    /\ err' = [err EXCEPT ![r] = "err"]
    /\ dials' = [dials EXCEPT ![r] = @ + 1]
    /\ pc' = [pc EXCEPT ![r] = "fatal"]
    /\ proc' = "exited"
    /\ exitCode' = 1
    /\ sock' = [q \in Requests |->
                  IF sock[q].state = "open" THEN [sock[q] EXCEPT !.state = "closed"] ELSE sock[q]]
    /\ UNCHANGED <<rev, bound, req, ipAddress, reached, resp>>
    /\ UNCHANGED <<ingressVars, feVars>>

\* A handler that reads the address from whichever socket is open, as a
\* package-level conn shared by all goroutines would.
ConnLocalAddrShared(r) ==
    sock[CHOOSE q \in Requests : sock[q].state = "open" /\ \A o \in Requests : sock[o].state = "open" => q <= o].laddr

\* conn.LocalAddr().(*net.UDPAddr).IP of the goroutine's own conn
ConnLocalAddr(r) == sock[r].laddr

\* A getIpAddress without the deferred Close.
CloseSkipped(s) == s

\* conn.Close()
Close(s) == [s EXCEPT !.state = "closed"]

\* getIpAddress returns: the address is read and formatted, then the
\* deferred conn.Close() runs
GetIpAddressReturn(r) ==
    /\ proc = "serving"
    /\ rev = "ip"
    /\ pc[r] = "dialed"
    /\ ipAddress' = [ipAddress EXCEPT ![r] = IPString(ConnLocalAddr(r))]
    /\ sock' = [sock EXCEPT ![r] = Close(sock[r])]
    /\ pc' = [pc EXCEPT ![r] = "respond"]
    /\ UNCHANGED <<rev, proc, bound, exitCode, req, err, dials, reached, resp>>
    /\ UNCHANGED <<ingressVars, feVars>>

\* getMessage of the IP-reporting revision: context.JSON with the result
GetMessageIP(r) ==
    /\ proc = "serving"
    /\ rev = "ip"
    /\ pc[r] = "respond"
    /\ resp' = [resp EXCEPT ![r] = JSONResponse(StatusOK, MessageWithIP(ipAddress[r]))]
    /\ pc' = [pc EXCEPT ![r] = "done"]
    /\ UNCHANGED <<rev, proc, bound, exitCode, req, err, dials, sock, ipAddress, reached>>
    /\ UNCHANGED <<ingressVars, feVars>>

ApiNext ==
    \/ ListenAndServe
    \/ RunFails
    \/ \E r \in Requests : \E m \in Methods : \E p \in ApiPaths : Arrive(r, m, p)
    \/ \E r \in Requests : ServeHTTP(r)
    \/ \E r \in Requests : GetMessageStatic(r)
    \/ \E r \in Requests : \E ip \in LocalAddrs : DialOk(r, ip)
    \/ \E r \in Requests : DialFails(r)
    \/ \E r \in Requests : GetIpAddressReturn(r)
    \/ \E r \in Requests : GetMessageIP(r)

----------------------------------------------------------------------------
(* The API process alone, requests arriving directly at its port *)

ApiInit ==
    /\ rev \in {"static", "ip"}
    /\ proc = "starting"
    /\ bound = FALSE
    /\ exitCode = 0
    /\ req = [r \in Requests |-> NoReq]
    /\ pc = [r \in Requests |-> "none"]
    /\ err = [r \in Requests |-> "unset"]
    /\ dials = [r \in Requests |-> 0]
    /\ sock = [r \in Requests |-> NoSock]
    /\ ipAddress = [r \in Requests |-> <<>>]
    /\ reached = [r \in Requests |-> FALSE]
    /\ resp = [r \in Requests |-> NoResp]
    /\ irev = "repo"
    /\ fwd = <<>>
    /\ gw = <<>>
    /\ loads = 1
    /\ fePc = "load"
    /\ fetchCount = 0
    /\ feResp = NoResp
    /\ feData = [kind |-> "none", obj |-> {}]
    /\ feErr = <<>>
    /\ dom = [title |-> <<>>, body |-> <<>>]
    /\ console = <<>>

SpecApi == ApiInit /\ [][ApiNext]_vars

----------------------------------------------------------------------------
(* The Ingress: the manifest and what the nginx controller makes of it *)

PathApi ==
    <<"/","a","p","i">>
PathApiSlash ==
    <<"/","a","p","i","/">>
PathApiUpper ==
    <<"/","A","P","I","/","m","e","s","s","a","g","e">>
PathApiary ==
    <<"/","a","p","i","a","r","y">>
PathApiDocs ==
    <<"/","a","p","i","-","d","o","c","s">>
PathScript ==
    <<"/","s","c","r","i","p","t","s","/","i","n","d","e","x",".","j","s">>
PathStyles ==
    <<"/","s","t","y","l","e","s","/","s","t","y","l","e","s",".","c","s","s">>
UpperLetters ==
    <<"A","B","C","D","E","F","G","H","I","J","K","L","M","N","O","P","Q","R","S","T","U","V","W","X","Y","Z">>
LowerLetters ==
    <<"a","b","c","d","e","f","g","h","i","j","k","l","m","n","o","p","q","r","s","t","u","v","w","x","y","z">>

ApiService == "go-kubernetes-api"

FrontendService == "go-kubernetes-frontend"

\* the paths a client may ask the Ingress for
ClientPaths ==
    {PathRoot, PathApi, PathApiSlash, PathApiMessage, PathApiUpper, PathApiary,
     PathApiDocs, MessagePath, PathScript, PathStyles}

\* spec.rules[0].http.paths, in manifest order
IngressRules(m) ==
    IF m = "repo"
    THEN << [regex |-> "/api(/|$)(.*)", service |-> ApiService, port |-> 80],
            [regex |-> "/", service |-> FrontendService, port |-> 80] >>
    ELSE << [regex |-> "/api/?(.*)", service |-> ApiService, port |-> 80],
            [regex |-> "/?(.*)", service |-> FrontendService, port |-> 80] >>

\* A manifest whose annotation names the first group.
RewriteTargetFirstGroup(m) == <<"/", "$1">>

\* nginx.ingress.kubernetes.io/rewrite-target, as tokens
RewriteTarget(m) ==
    IF m = "repo" THEN <<"/", "$2">> ELSE <<"/", "$1">>

LowerChar(c) ==
    IF \E i \in 1..Len(UpperLetters) : UpperLetters[i] = c
    THEN LowerLetters[CHOOSE i \in 1..Len(UpperLetters) : UpperLetters[i] = c]
    ELSE c

\* the first n characters of p, letters folded to lower case
FoldedPrefix(p, n) == [i \in 1..n |-> LowerChar(p[i])]

HasPrefixFold(p, pre) == Len(p) >= Len(pre) /\ FoldedPrefix(p, Len(pre)) = pre

\* p from its n-th character on
From(p, n) == SubSeq(p, n, Len(p))

NoMatch == [matched |-> FALSE, groups |-> <<>>]

\* The controller turns a path of an Ingress that carries rewrite-target
\* into the location ~* "^<path>" and the directive
\* rewrite "(?i)<path>" <target> break: the match is case-insensitive,
\* starts at the first character, and (.*) takes the rest of the URI.
RegexMatch(regex, p) ==
    CASE regex = "/api(/|$)(.*)" ->
            IF HasPrefixFold(p, PathApi) /\ Len(p) >= 5 /\ p[5] = "/"
            THEN [matched |-> TRUE, groups |-> << <<"/">>, From(p, 6) >>]
            ELSE IF HasPrefixFold(p, PathApi) /\ Len(p) = 4
            THEN [matched |-> TRUE, groups |-> << <<>>, <<>> >>]
            ELSE NoMatch
      [] regex = "/" ->
            IF Len(p) >= 1 /\ p[1] = "/"
            THEN [matched |-> TRUE, groups |-> <<>>]
            ELSE NoMatch
      [] regex = "/api/?(.*)" ->
            IF HasPrefixFold(p, PathApi)
            THEN [matched |-> TRUE,
                  groups |-> << IF Len(p) >= 5 /\ p[5] = "/" THEN From(p, 6) ELSE From(p, 5) >>]
            ELSE NoMatch
      [] regex = "/?(.*)" ->
            [matched |-> TRUE,
             groups |-> << IF Len(p) >= 1 /\ p[1] = "/" THEN From(p, 2) ELSE p >>]

GroupRef(tok) == IF tok = "$1" THEN 1 ELSE IF tok = "$2" THEN 2 ELSE 0

\* the replacement string of the rewrite directive: a group the regex
\* does not have expands to nothing
RECURSIVE Expand(_, _)
Expand(target, groups) ==
    IF target = <<>> THEN <<>>
    ELSE LET n == GroupRef(Head(target))
         IN  (IF n = 0 THEN <<Head(target)>>
              ELSE IF n <= Len(groups) THEN groups[n]
              ELSE <<>>) \o Expand(Tail(target), groups)

\* the first rule whose location matches takes the request; the rewrite
\* of the annotation applies to every path of the Ingress
Dispatch(m, p) ==
    LET rules == IngressRules(m)
        hits == {i \in 1..Len(rules) : RegexMatch(rules[i].regex, p).matched}
    IN  IF hits = {}
        THEN [client |-> p, service |-> "default-backend", port |-> 0, path |-> p]
        ELSE LET i == CHOOSE i \in hits : \A j \in hits : i <= j
             IN  [client |-> p,
                  service |-> rules[i].service,
                  port |-> rules[i].port,
                  path |-> Expand(RewriteTarget(m), RegexMatch(rules[i].regex, p).groups)]

\* the controller proxies one client request
IngressForward(p) ==
    /\ Len(fwd) < MaxRequests
    /\ fwd' = Append(fwd, Dispatch(irev, p))
    /\ UNCHANGED <<irev, gw>>
    /\ UNCHANGED <<apiVars, feVars>>

IngressNext ==
    \E p \in ClientPaths : IngressForward(p)

IngressInit ==
    /\ rev = "ip"
    /\ proc = "starting"
    /\ bound = FALSE
    /\ exitCode = 0
    /\ req = [r \in Requests |-> NoReq]
    /\ pc = [r \in Requests |-> "none"]
    /\ err = [r \in Requests |-> "unset"]
    /\ dials = [r \in Requests |-> 0]
    /\ sock = [r \in Requests |-> NoSock]
    /\ ipAddress = [r \in Requests |-> <<>>]
    /\ reached = [r \in Requests |-> FALSE]
    /\ resp = [r \in Requests |-> NoResp]
    /\ irev \in {"repo", "readme"}
    /\ fwd = <<>>
    /\ gw = <<>>
    /\ loads = 1
    /\ fePc = "load"
    /\ fetchCount = 0
    /\ feResp = NoResp
    /\ feData = [kind |-> "none", obj |-> {}]
    /\ feErr = <<>>
    /\ dom = [title |-> <<>>, body |-> <<>>]
    /\ console = <<>>

SpecIngress == IngressInit /\ [][IngressNext]_vars

----------------------------------------------------------------------------
(* The frontend: index.html and scripts/index.js *)

InitialTitle ==
    <<"H","e","l","l","o","!">>
InitialBody ==
    <<"H","o","p","e"," ","y","o","u"," ","a","r","e"," ","f","i","n","e","!">>
Undefined ==
    <<"u","n","d","e","f","i","n","e","d">>
NullText ==
    <<"n","u","l","l">>
IndexHtml ==
    <<"<","!","D","O","C","T","Y","P","E"," ","h","t","m","l",">">>
BadGatewayHtml ==
    <<"<","h","t","m","l",">","5","0","2"," ","B","a","d"," ","G","a","t","e","w","a","y","<","/","h","t","m","l",">">>
UnavailableHtml ==
    <<"<","h","t","m","l",">","5","0","3","<","/","h","t","m","l",">">>
InternalError ==
    <<"i","n","t","e","r","n","a","l"," ","e","r","r","o","r">>
ErrorPrefix ==
    <<"E","r","r","o","r",":"," ">>
ErrUnable ==
    <<"E","r","r","o","r",":"," ","U","n","a","b","l","e"," ","t","o"," ","g","e","t"," ","m","e","s","s","a","g","e">>
ErrFetch ==
    <<"T","y","p","e","E","r","r","o","r",":"," ","F","a","i","l","e","d"," ","t","o"," ","f","e","t","c","h">>
ErrSyntax ==
    <<"S","y","n","t","a","x","E","r","r","o","r",":"," ","U","n","e","x","p","e","c","t","e","d"," ","t","o","k","e","n">>
ErrNull ==
    <<"T","y","p","e","E","r","r","o","r",":"," ","C","a","n","n","o","t"," ","r","e","a","d"," ","p","r","o","p","e","r","t","i","e","s"," ","o","f"," ","n","u","l","l">>

\* <h1 id='title'> and <p id='body'> of index.html
InitialDom == [title |-> InitialTitle, body |-> InitialBody]

TextResponse(code, t) == [status |-> code, json |-> {}, text |-> t, location |-> <<>>]

\* gin.H of the README revision whose second key is "message"
MessageReadme == {<<"title", TitleText>>, <<"message", StaticBody>>}

\* what http://localhost:80/api/message may answer the browser with
FetchResponses ==
    {JSONResponse(StatusOK, MessageStatic),
     JSONResponse(StatusOK, MessageReadme),
     JSONResponse(StatusOK, {}),
     TextResponse(StatusOK, NullText),
     TextResponse(StatusOK, IndexHtml),
     NotFoundResponse,
     JSONResponse(StatusNotFound, MessageStatic),
     JSONResponse(500, {<<"error", InternalError>>}),
     TextResponse(502, BadGatewayHtml),
     TextResponse(503, UnavailableHtml)}
    \cup {JSONResponse(StatusOK, MessageWithIP(IPString(ip))) : ip \in LocalAddrs}

NoData == [kind |-> "none", obj |-> {}]

\* response.json(): the body text parsed as JSON
ParseJson(rs) ==
    IF rs.text = NullText THEN [kind |-> "null", obj |-> {}]
    ELSE IF rs.text # <<>> THEN [kind |-> "error", obj |-> {}]
    ELSE [kind |-> "object", obj |-> rs.json]

\* data.<k> written to innerHTML: a missing member reads as undefined
Member(obj, k) == IF JsonHas(obj, k) THEN JsonGet(obj, k) ELSE Undefined

\* the script starts: the page shows index.html and fetch() is called
FeFetch ==
    /\ fePc = "load"
    /\ fetchCount' = fetchCount + 1
    /\ fePc' = "fetching"
    /\ UNCHANGED <<feResp, feData, feErr, dom, console>>
    /\ UNCHANGED <<loads, apiVars, ingressVars>>

\* fetch() rejects: no connection, or CORS refused
FeFetchRejected ==
    /\ fePc = "fetching"
    /\ feErr' = ErrFetch
    /\ fePc' = "rejected"
    /\ UNCHANGED <<fetchCount, feResp, feData, dom, console>>
    /\ UNCHANGED <<loads, apiVars, ingressVars>>

\* A getMessage that reads the body whatever the status.
FeStatusUnchecked(rs) ==
    /\ fePc = "fetching"
    /\ feResp' = rs
    /\ fePc' = "json"
    /\ UNCHANGED feErr
    /\ UNCHANGED <<fetchCount, feData, dom, console>>
    /\ UNCHANGED <<loads, apiVars, ingressVars>>

\* fetch() resolves: response.status === 200 goes on to response.json(),
\* anything else throws Error('Unable to get message')
FeResponse(rs) ==
    /\ fePc = "fetching"
    /\ feResp' = rs
    /\ IF rs.status = StatusOK
       THEN fePc' = "json" /\ UNCHANGED feErr
       ELSE fePc' = "rejected" /\ feErr' = ErrUnable
    /\ UNCHANGED <<fetchCount, feData, dom, console>>
    /\ UNCHANGED <<loads, apiVars, ingressVars>>

\* await response.json()
FeJson ==
    /\ fePc = "json"
    /\ LET data == ParseJson(feResp)
       IN  IF data.kind = "error"
           THEN fePc' = "rejected" /\ feErr' = ErrSyntax /\ UNCHANGED feData
           ELSE fePc' = "resolved" /\ feData' = data /\ UNCHANGED feErr
    /\ UNCHANGED <<fetchCount, feResp, dom, console>>
    /\ UNCHANGED <<loads, apiVars, ingressVars>>

\* .then((data) => ...): both elements are written in one callback; data
\* being null throws before the first write
FeThen ==
    /\ fePc = "resolved"
    /\ IF feData.kind = "null"
       THEN fePc' = "rejected" /\ feErr' = ErrNull /\ UNCHANGED dom
       ELSE /\ dom' = [title |-> Member(feData.obj, "title"), body |-> Member(feData.obj, "body")]
            /\ fePc' = "done"
            /\ UNCHANGED feErr
    /\ UNCHANGED <<fetchCount, feResp, feData, console>>
    /\ UNCHANGED <<loads, apiVars, ingressVars>>

\* .catch((err) => console.log(`Error: ${err}`))
FeCatch ==
    /\ fePc = "rejected"
    /\ console' = Append(console, ErrorPrefix \o feErr)
    /\ fePc' = "done"
    /\ UNCHANGED <<fetchCount, feResp, feData, feErr, dom>>
    /\ UNCHANGED <<loads, apiVars, ingressVars>>

\* the user refreshes the browser once the script has started: the
\* pending promise chain is dropped, the document is loaded afresh and
\* the script runs again
FeReload ==
    /\ loads < MaxLoads
    /\ fePc # "load"
    /\ loads' = loads + 1
    /\ fePc' = "load"
    /\ feResp' = NoResp
    /\ feData' = NoData
    /\ feErr' = <<>>
    /\ dom' = InitialDom
    /\ console' = <<>>
    /\ UNCHANGED fetchCount
    /\ UNCHANGED <<apiVars, ingressVars>>

FrontendNext ==
    \/ FeFetch
    \/ FeFetchRejected
    \/ \E rs \in FetchResponses : FeResponse(rs)
    \/ FeJson
    \/ FeThen
    \/ FeCatch
    \/ FeReload

FrontendInit ==
    /\ rev = "ip"
    /\ proc = "starting"
    /\ bound = FALSE
    /\ exitCode = 0
    /\ req = [r \in Requests |-> NoReq]
    /\ pc = [r \in Requests |-> "none"]
    /\ err = [r \in Requests |-> "unset"]
    /\ dials = [r \in Requests |-> 0]
    /\ sock = [r \in Requests |-> NoSock]
    /\ ipAddress = [r \in Requests |-> <<>>]
    /\ reached = [r \in Requests |-> FALSE]
    /\ resp = [r \in Requests |-> NoResp]
    /\ irev = "repo"
    /\ fwd = <<>>
    /\ gw = <<>>
    /\ loads = 1
    /\ fePc = "load"
    /\ fetchCount = 0
    /\ feResp = NoResp
    /\ feData = NoData
    /\ feErr = <<>>
    /\ dom = InitialDom
    /\ console = <<>>

SpecFrontend == FrontendInit /\ [][FrontendNext]_vars

----------------------------------------------------------------------------
(* The deployed system: client -> Ingress -> Service -> API process *)

\* services.yaml, go-kubernetes-api: spec.ports[0].port
ServicePort == 80
\* services.yaml, go-kubernetes-api: spec.ports[0].targetPort
ServiceTargetPort == 80
\* pods.yaml, go-kubernetes-api: containers[0].ports[0].containerPort
ContainerPort == 80

\* the port router.Run is given
ListenPort(r) == IF r = "static" THEN 81 ELSE 80

NginxNotFoundHtml ==
    <<"<","h","t","m","l",">","4","0","4"," ","N","o","t"," ","F","o","u","n","d","<","/","h","t","m","l",">">>

\* the paths clients ask the Ingress for
SystemPaths == {PathApiMessage, PathRoot, PathScript}

\* the files the frontend image serves from /usr/share/nginx/html
FrontendFiles == {PathRoot, PathScript, PathStyles}

\* nginx answers 200 for a file it has (the body is abridged to the index
\* page) and its own 404 page otherwise
FrontendAnswer(p) ==
    IF p \in FrontendFiles
    THEN TextResponse(StatusOK, IndexHtml)
    ELSE TextResponse(StatusNotFound, NginxNotFoundHtml)

\* the Service forwards port to targetPort of the pod; the connection is
\* accepted when a process listens there
UpstreamAccepts(d) ==
    /\ proc = "serving"
    /\ d.port = ServicePort
    /\ ServiceTargetPort = ListenPort(rev)

FreeIds == {r \in Requests : pc[r] = "none"}

\* the controller proxies a request of the /api rule to a listening API
IngressProxyApi(p) ==
    LET d == Dispatch(irev, p)
    IN  /\ Len(fwd) < MaxRequests
        /\ d.service = ApiService
        /\ UpstreamAccepts(d)
        /\ FreeIds # {}
        /\ LET r == CHOOSE r \in FreeIds : \A q \in FreeIds : r <= q
           IN  /\ req' = [req EXCEPT ![r] = [method |-> "GET", path |-> d.path]]
               /\ pc' = [pc EXCEPT ![r] = "recv"]
               /\ gw' = Append(gw, [rid |-> r, up |-> TRUE, answer |-> NoResp])
        /\ fwd' = Append(fwd, d)
        /\ UNCHANGED <<rev, proc, bound, exitCode, err, dials, sock, ipAddress, reached, resp>>
        /\ UNCHANGED <<irev, feVars>>

\* nothing accepts the connection: the controller answers 502
IngressProxyRefused(p) ==
    LET d == Dispatch(irev, p)
    IN  /\ Len(fwd) < MaxRequests
        /\ d.service = ApiService
        /\ ~UpstreamAccepts(d)
        /\ fwd' = Append(fwd, d)
        /\ gw' = Append(gw, [rid |-> 0, up |-> proc = "serving",
                             answer |-> TextResponse(502, BadGatewayHtml)])
        /\ UNCHANGED <<irev, apiVars, feVars>>

\* a request of the / rule is answered by the frontend's nginx
IngressProxyFrontend(p) ==
    LET d == Dispatch(irev, p)
    IN  /\ Len(fwd) < MaxRequests
        /\ d.service = FrontendService
        /\ fwd' = Append(fwd, d)
        /\ gw' = Append(gw, [rid |-> 0, up |-> TRUE, answer |-> FrontendAnswer(d.path)])
        /\ UNCHANGED <<irev, apiVars, feVars>>

\* the API has written its response: the controller relays it
IngressRelay(i) ==
    /\ gw[i].rid # 0
    /\ gw[i].answer = NoResp
    /\ pc[gw[i].rid] = "done"
    /\ gw' = [gw EXCEPT ![i].answer = resp[gw[i].rid]]
    /\ UNCHANGED <<irev, fwd, apiVars, feVars>>

\* the API process ended before it wrote a response: 502
IngressUpstreamLost(i) ==
    /\ gw[i].rid # 0
    /\ gw[i].answer = NoResp
    /\ proc = "exited"
    /\ pc[gw[i].rid] # "done"
    /\ gw' = [gw EXCEPT ![i].answer = TextResponse(502, BadGatewayHtml)]
    /\ UNCHANGED <<irev, fwd, apiVars, feVars>>

SystemNext ==
    \/ ListenAndServe
    \/ RunFails
    \/ \E r \in Requests : Arrive(r, "GET", MessagePath)
    \/ \E r \in Requests : ServeHTTP(r)
    \/ \E r \in Requests : GetMessageStatic(r)
    \/ \E r \in Requests : \E ip \in LocalAddrs : DialOk(r, ip)
    \/ \E r \in Requests : DialFails(r)
    \/ \E r \in Requests : GetIpAddressReturn(r)
    \/ \E r \in Requests : GetMessageIP(r)
    \/ \E p \in SystemPaths : IngressProxyApi(p)
    \/ \E p \in SystemPaths : IngressProxyRefused(p)
    \/ \E p \in SystemPaths : IngressProxyFrontend(p)
    \/ \E i \in 1..Len(gw) : IngressRelay(i)
    \/ \E i \in 1..Len(gw) : IngressUpstreamLost(i)

SystemInit ==
    /\ rev \in {"static", "ip"}
    /\ proc = "starting"
    /\ bound = FALSE
    /\ exitCode = 0
    /\ req = [r \in Requests |-> NoReq]
    /\ pc = [r \in Requests |-> "none"]
    /\ err = [r \in Requests |-> "unset"]
    /\ dials = [r \in Requests |-> 0]
    /\ sock = [r \in Requests |-> NoSock]
    /\ ipAddress = [r \in Requests |-> <<>>]
    /\ reached = [r \in Requests |-> FALSE]
    /\ resp = [r \in Requests |-> NoResp]
    /\ irev \in {"repo", "readme"}
    /\ fwd = <<>>
    /\ gw = <<>>
    /\ loads = 1
    /\ fePc = "load"
    /\ fetchCount = 0
    /\ feResp = NoResp
    /\ feData = NoData
    /\ feErr = <<>>
    /\ dom = InitialDom
    /\ console = <<>>

SpecSystem == SystemInit /\ [][SystemNext]_vars

----------------------------------------------------------------------------
(* Properties of the API process *)

IsGetMessage(r) == req[r].method = "GET" /\ req[r].path = MessagePath

InFlight == {"recv", "getMessage", "dialed", "respond"}

\* HTTP 200 with a JSON object holding non-empty title and body
Ok200(rs) ==
    /\ rs.status = StatusOK
    /\ JsonHas(rs.json, "title")
    /\ JsonHas(rs.json, "body")
    /\ Len(JsonGet(rs.json, "title")) > 0
    /\ Len(JsonGet(rs.json, "body")) > 0

\* C1 as stated: every GET /message request whose handling has ended, in
\* either revision, was answered with HTTP 200 and a JSON object with
\* non-empty title and body.
C1_EveryGetMessageAnswered200 ==
    \A r \in Requests :
        (IsGetMessage(r) /\ pc[r] \in {"done", "fatal"}) => Ok200(resp[r])

\* C1 amended: every response written for GET /message is HTTP 200 with
\* non-empty title and body, in both revisions and after any earlier
\* requests; the only handler that ends without a response is one of the
\* IP-reporting revision whose dial failed.
C1_AnsweredGetMessageIs200 ==
    \A r \in Requests :
        IsGetMessage(r) =>
            /\ (pc[r] = "done" => Ok200(resp[r]))
            /\ (resp[r] # NoResp => Ok200(resp[r]))
            /\ (pc[r] = "fatal" => rev = "ip" /\ err[r] = "err" /\ resp[r] = NoResp)
            /\ (rev = "static" => pc[r] # "fatal")

C1_Witness ==
    \E r \in Requests : \E q \in Requests :
        /\ q < r
        /\ pc[q] = "done"
        /\ IsGetMessage(r)
        /\ pc[r] = "done"
        /\ Ok200(resp[r])
        /\ rev = "ip"

C3_OtherPaths404 ==
    \A r \in Requests :
        (pc[r] = "done" /\ req[r].path # MessagePath) =>
            (resp[r].status = StatusNotFound /\ ~reached[r])

\* C3 amended: only GET /message reaches getMessage; a request for any
\* other path is answered 404, except GET /message/, which the router
\* answers with a 301 redirect to /message.
C3_OnlyGetMessageRouted ==
    \A r \in Requests :
        /\ (reached[r] => IsGetMessage(r))
        /\ (dials[r] > 0 => IsGetMessage(r))
        /\ (pc[r] = "done" /\ req[r].path # MessagePath) =>
                IF req[r].method = "GET" /\ req[r].path = PathMessageSlash
                THEN resp[r].status = 301 /\ resp[r].location = MessagePath
                ELSE resp[r] = NotFoundResponse

C3_Witness ==
    \E r \in Requests : \E q \in Requests :
        /\ pc[r] = "done"
        /\ req[r].path = PathApiMessage
        /\ resp[r].status = StatusNotFound
        /\ pc[q] = "done"
        /\ req[q] = [method |-> "GET", path |-> PathMessageSlash]
        /\ resp[q].status = 301

\* C6: in the IP-reporting revision a failed dial ends the process with a
\* fatal exit: no response of any status is written for that request, the
\* dial is made once and nothing stands in for the address.
C6_DialFailureIsFatal ==
    \A r \in Requests :
        err[r] = "err" =>
            /\ proc = "exited"
            /\ exitCode = 1
            /\ pc[r] = "fatal"
            /\ resp[r] = NoResp
            /\ dials[r] = 1
            /\ ipAddress[r] = <<>>

C6_Witness ==
    \E r \in Requests : rev = "ip" /\ IsGetMessage(r) /\ err[r] = "err"

\* C7 as stated: the process ends only by a fatal error at startup; once
\* it serves, no request makes it exit, and a failed bind is a fatal error.
C7_ExitsOnlyAtStartupFatally ==
    proc = "exited" => (~bound /\ exitCode # 0)

\* C7 amended: the process ends in two ways only.  A failed bind makes
\* router.Run return and main return normally, status 0, before any
\* request is taken.  Once serving, api/main.go never exits, and the
\* IP-reporting revision exits, status 1, exactly when the dial of a
\* GET /message request fails.
C7_ExitCauses ==
    /\ (proc = "serving" => bound)
    /\ (rev = "static" /\ bound => proc = "serving")
    /\ proc = "exited" =>
        \/ /\ ~bound
           /\ exitCode = 0
           /\ \A r \in Requests : pc[r] = "none"
        \/ /\ bound
           /\ rev = "ip"
           /\ exitCode = 1
           /\ \E r \in Requests : IsGetMessage(r) /\ pc[r] = "fatal" /\ err[r] = "err"

C7_Witness ==
    /\ proc = "exited"
    /\ bound
    /\ \E r \in Requests : pc[r] = "done" /\ resp[r].status = StatusOK

\* C8 as stated: whether a request completes does not depend on any other
\* request; one that has arrived and has not itself failed is being served.
C8_NoRequestStranded ==
    \A r \in Requests : pc[r] \in InFlight => proc = "serving"

\* what request r alone determines as its response
OwnResponse(r) ==
    IF IsGetMessage(r)
    THEN IF rev = "static" THEN JSONResponse(StatusOK, MessageStatic)
         ELSE JSONResponse(StatusOK, MessageWithIP(IPString(sock[r].laddr)))
    ELSE IF req[r] = [method |-> "GET", path |-> PathMessageSlash]
         THEN RedirectResponse("GET", PathMessageSlash)
         ELSE NotFoundResponse

\* C8 amended: handlers share no data, so the status and body of every
\* response are determined by that request alone (its method, its path
\* and the address of its own socket) under any interleaving; another
\* request affects it in one way only: a failed dial ends the process and
\* the requests then in flight are never answered.
C8_OutcomeIsOwn ==
    \A r \in Requests :
        /\ (resp[r] # NoResp => resp[r] = OwnResponse(r))
        /\ (pc[r] \in InFlight /\ proc = "exited") =>
                \E q \in Requests : q # r /\ pc[q] = "fatal" /\ resp[r] = NoResp

C8_Witness ==
    \E r \in Requests : \E q \in Requests :
        /\ r # q
        /\ resp[r].status = StatusOK
        /\ resp[q].status = StatusOK
        /\ sock[r].laddr # sock[q].laddr
        /\ sock[r].state = "closed"
        /\ sock[q].state = "closed"

\* C9: the socket getIpAddress opens is closed before the handler goes on
\* to answer; when no handler is inside getIpAddress no address-discovery
\* socket is open, and nothing was sent on any of them.
C9_SocketsClosed ==
    /\ \A r \in Requests :
        /\ (pc[r] \in {"respond", "done"} /\ dials[r] > 0) => sock[r].state = "closed"
        /\ (sock[r].state = "open" => pc[r] = "dialed" /\ proc = "serving")
        /\ sock[r].sent = 0
    /\ (\A r \in Requests : pc[r] \in {"none", "done"}) =>
            Cardinality({r \in Requests : sock[r].state = "open"}) = 0

C9_Witness ==
    /\ \A r \in Requests : pc[r] = "done" /\ IsGetMessage(r)
    /\ rev = "ip"
    /\ \A r \in Requests : sock[r].state = "closed"

----------------------------------------------------------------------------
(* Properties of the Ingress *)

\* C4: a request for /api/<rest> goes to go-kubernetes-api on port 80 and
\* the backend sees /<rest>: the /api prefix is stripped.
C4_ApiPrefixStripped ==
    \A i \in 1..Len(fwd) :
        LET f == fwd[i]
        IN  (Len(f.client) >= 5 /\ SubSeq(f.client, 1, 5) = PathApiSlash) =>
                /\ f.service = ApiService
                /\ f.port = 80
                /\ f.path = From(f.client, 5)

C4_Witness ==
    \E i \in 1..Len(fwd) : \E j \in 1..Len(fwd) :
        /\ irev = "repo"
        /\ fwd[i].client = PathApiMessage
        /\ fwd[i].path = MessagePath
        /\ fwd[j].client = PathApiSlash
        /\ fwd[j].path = PathRoot

\* the request is one the /api rule takes
TakenByApiRule(m, p) == RegexMatch(IngressRules(m)[1].regex, p).matched

\* C5: every request the /api rule does not match goes to
\* go-kubernetes-frontend on port 80 with the path the client asked for.
C5_FrontendPathUnmodified ==
    \A i \in 1..Len(fwd) :
        LET f == fwd[i]
        IN  ~TakenByApiRule(irev, f.client) =>
                /\ f.service = FrontendService
                /\ f.port = 80
                /\ f.path = f.client

----------------------------------------------------------------------------
(* Properties of the frontend script *)

\* C10: each page load makes one GET and never a second; #title and #body
\* change only when the status is 200 and the JSON parses, and then to the
\* members read from it; on any other status, a failed fetch or a failed
\* parse both elements keep the content of index.html and the error shows
\* as one console.log line only.
C10_DomChangesOnlyOn200 ==
    /\ fetchCount = (IF fePc = "load" THEN loads - 1 ELSE loads)
    /\ Len(console) <= 1
    /\ dom # InitialDom =>
        /\ fePc = "done"
        /\ feResp.status = StatusOK
        /\ feData.kind = "object"
        /\ dom = [title |-> Member(feData.obj, "title"), body |-> Member(feData.obj, "body")]
        /\ console = <<>>
    /\ (fePc = "done" /\ (feResp.status # StatusOK \/ ParseJson(feResp).kind = "error")) =>
        /\ dom = InitialDom
        /\ Len(console) = 1

C10_Witness ==
    /\ fePc = "done"
    /\ feResp = JSONResponse(StatusNotFound, MessageStatic)
    /\ dom = InitialDom
    /\ Len(console) = 1
    /\ loads = 2

----------------------------------------------------------------------------
(* Properties across the components *)

\* the 200 responses the GET /message handlers of the repository write:
\* api/main.go, the IP-reporting revision and the README's first handler
ApiOkResponses ==
    {JSONResponse(StatusOK, MessageStatic), JSONResponse(StatusOK, MessageReadme)}
    \cup {JSONResponse(StatusOK, MessageWithIP(IPString(ip))) : ip \in LocalAddrs}

\* C12: the keys the API emits are the keys the script reads: every 200
\* response of GET /message has title and body, so once the script has
\* handled one, neither #title nor #body shows undefined.
C12_KeysEmittedAreKeysRead ==
    (fePc = "done" /\ feResp \in ApiOkResponses) =>
        /\ JsonHas(feResp.json, "title")
        /\ JsonHas(feResp.json, "body")
        /\ dom.title # Undefined
        /\ dom.body # Undefined

\* p begins with the characters /api but is neither /api nor under /api/
BeginsWithApiOffBoundary(p) ==
    /\ Len(p) > 4
    /\ SubSeq(p, 1, 4) = PathApi
    /\ p[5] # "/"

\* C13: the /api rule matches on a path-segment boundary only: a path
\* such as /apiary or /api-docs goes to go-kubernetes-frontend, never to
\* go-kubernetes-api, and each request is taken by one backend.
C13_ApiRuleOnSegmentBoundary ==
    \A i \in 1..Len(fwd) :
        LET f == fwd[i]
        IN  /\ f.service \in {ApiService, FrontendService}
            /\ BeginsWithApiOffBoundary(f.client) => f.service = FrontendService

\* C11: the port chain is consistent (Ingress backend port = Service
\* port, targetPort = containerPort = the port the process listens on),
\* so a request for /api/message that finds the API process serving is
\* answered with the JSON a getMessage handler wrote.
C11_PortChainReachesGetMessage ==
    \A i \in 1..Len(gw) :
        (fwd[i].client = PathApiMessage /\ gw[i].up /\ gw[i].answer # NoResp) =>
            /\ fwd[i].port = ServicePort
            /\ ServiceTargetPort = ContainerPort
            /\ ContainerPort = ListenPort(rev)
            /\ gw[i].rid # 0
            /\ reached[gw[i].rid]
            /\ Ok200(gw[i].answer)
            /\ JsonHas(gw[i].answer.json, "title")

====
